---------------------------- MODULE Spec2Model ----------------------------
(***************************************************************************)
(* dmem (src/dmem.py): per-container memory statistics read from the       *)
(* cgroup v1 / v2 pseudo-files.                                            *)
(*                                                                         *)
(* Text is a sequence of one-character strings, a file is a text plus a    *)
(* permission bit, the filesystem is a function from paths to files.       *)
(* Python's None is the empty tuple, a present value v is <<v>>.  A call    *)
(* returns a record [exc, val, opens]: the exception that left the call    *)
(* ("" when it returned), its value, and the paths it passed to open().    *)
(***************************************************************************)
EXTENDS Integers, Sequences, FiniteSets, TLC

VARIABLES fs, docker, filter_str, pc, cgroup_version, containers, rows, calls, arg

vars == <<fs, docker, filter_str, pc, cgroup_version, containers, rows, calls, arg>>

-----------------------------------------------------------------------------
(* Optional[int] *)
None == <<>>

Some(v) == <<v>>

(* what a call hands back: a return value, or an exception that propagates *)
Return(v, o) == [exc |-> "", val |-> v, opens |-> o]

Raise(e, o) == [exc |-> e, val |-> None, opens |-> o]

(* the exception classes the model raises; all derive from Exception *)
ExceptionClasses == {"FileNotFoundError", "PermissionError", "ValueError"}

-----------------------------------------------------------------------------
(* str.strip(), str.split(), int(str), iteration over the lines of a file  *)

Whitespace == {" ", "\t", "\n", "\r"}

Digits == {"0", "1", "2", "3", "4", "5", "6", "7", "8", "9"}

DigitVal == ("0" :> 0) @@ ("1" :> 1) @@ ("2" :> 2) @@ ("3" :> 3) @@ ("4" :> 4)
            @@ ("5" :> 5) @@ ("6" :> 6) @@ ("7" :> 7) @@ ("8" :> 8) @@ ("9" :> 9)

SetMin(S) == CHOOSE x \in S : \A y \in S : x <= y

SetMax(S) == CHOOSE x \in S : \A y \in S : x >= y

(* str.strip(): drop leading and trailing whitespace *)
Strip(s) ==
    LET keep == {i \in 1..Len(s) : s[i] \notin Whitespace}
    IN  IF keep = {} THEN <<>> ELSE SubSeq(s, SetMin(keep), SetMax(keep))

(* str.split(): the maximal runs of non-whitespace characters *)
RECURSIVE SplitFrom(_, _, _)
SplitFrom(s, cur, acc) ==
    IF s = <<>> THEN (IF cur = <<>> THEN acc ELSE Append(acc, cur))
    ELSE IF Head(s) \in Whitespace
         THEN SplitFrom(Tail(s), <<>>, IF cur = <<>> THEN acc ELSE Append(acc, cur))
         ELSE SplitFrom(Tail(s), Append(cur, Head(s)), acc)

Split(s) == SplitFrom(s, <<>>, <<>>)

(* `for line in f`: the text cut after every newline, the rest as a last line *)
RECURSIVE LinesFrom(_, _, _)
LinesFrom(s, cur, acc) ==
    IF s = <<>> THEN (IF cur = <<>> THEN acc ELSE Append(acc, cur))
    ELSE IF Head(s) = "\n"
         THEN LinesFrom(Tail(s), <<>>, Append(acc, Append(cur, "\n")))
         ELSE LinesFrom(Tail(s), Append(cur, Head(s)), acc)

FileLines(data) == LinesFrom(data, <<>>, <<>>)

RECURSIVE DigitsValue(_)
DigitsValue(ds) ==
    IF ds = <<>> THEN 0
    ELSE 10 * DigitsValue(SubSeq(ds, 1, Len(ds) - 1)) + DigitVal[ds[Len(ds)]]

(* int(s), base 10: surrounding whitespace, one optional sign, digits with   *)
(* single underscores between them; anything else raises ValueError          *)
IntBody(t) == IF t # <<>> /\ t[1] \in {"+", "-"} THEN Tail(t) ELSE t

IntSign(t) == IF t # <<>> /\ t[1] = "-" THEN 0 - 1 ELSE 1

IsIntBody(body) ==
    /\ body # <<>>
    /\ \A i \in 1..Len(body) : body[i] \in Digits \cup {"_"}
    /\ body[1] # "_" /\ body[Len(body)] # "_"
    /\ \A i \in 1..(Len(body) - 1) : ~(body[i] = "_" /\ body[i + 1] = "_")

IsDigit(c) == c \in Digits

PyIntStripped(t) ==
    IF IsIntBody(IntBody(t))
    THEN Return(IntSign(t) * DigitsValue(SelectSeq(IntBody(t), IsDigit)), <<>>)
    ELSE Raise("ValueError", <<>>)

PyInt(s) == PyIntStripped(Strip(s))

-----------------------------------------------------------------------------
(* the filesystem: fs.files maps each existing path to [readable, data],    *)
(* fs.dirs is the set of existing cgroup directories                        *)

File(data) == [readable |-> TRUE, data |-> data]

Unreadable(data) == [readable |-> FALSE, data |-> data]

(* os.path.join(base_path, name) *)
Join(base_path, name) == [dir |-> base_path, name |-> name]

(* os.path.exists(path) *)
Exists(path) == path \in DOMAIN fs.files

(* open(path, "r") followed by reading the whole file *)
OpenRead(path) ==
    IF ~Exists(path) THEN Raise("FileNotFoundError", <<path>>)
    ELSE IF ~fs.files[path].readable THEN Raise("PermissionError", <<path>>)
    ELSE Return(fs.files[path].data, <<path>>)

-----------------------------------------------------------------------------
(* read_cgroup_file *)

(* value = int(content); return value *)
ReturnInt(value, opens) ==
    IF value.exc # "" THEN Raise(value.exc, opens) ELSE Return(Some(value.val), opens)

(* if content == "max": return None; else the integer *)
ParseContent(content, opens) ==
    IF content = <<"m", "a", "x">> THEN Return(None, opens)
    ELSE ReturnInt(PyInt(content), opens)

(* the try block, given what open() and read() did *)
ReadOpened(f) == IF f.exc # "" THEN f ELSE ParseContent(Strip(f.val), f.opens)

ReadCgroupFileTry(path) == ReadOpened(OpenRead(path))

(* a handler that catches OSError only: a parse failure leaves the call *)
ExceptOSErrorOnly(r) ==
    IF r.exc \in {"FileNotFoundError", "PermissionError"} THEN Return(None, r.opens) ELSE r

(* except Exception: return None *)
ExceptReturnNone(r) == IF r.exc \in ExceptionClasses THEN Return(None, r.opens) ELSE r

ReadCgroupFile(path) == ExceptReturnNone(ReadCgroupFileTry(path))

-----------------------------------------------------------------------------
(* read_cgroup_stat_file: the dict is a set of <<key, value>> pairs with     *)
(* one pair per key                                                         *)

DictPut(d, k, v) == {e \in d : e[1] # k} \cup {<<k, v>>}

(* dict.get(key): None when the key is missing *)
DictGet(d, k) ==
    IF \E e \in d : e[1] = k THEN Some((CHOOSE e \in d : e[1] = k)[2]) ELSE None

(* the loop over the lines; an exception leaves it with the dict built so far *)
RECURSIVE StatLoop(_, _)
(* stats[key] = int(value) *)
StatStore(key, value, rest, stats) ==
    IF value.exc # "" THEN [exc |-> value.exc, stats |-> stats]
    ELSE StatLoop(rest, DictPut(stats, key, value.val))

(* parts = line.strip().split(); if len(parts) == 2: ... *)
StatLine(parts, rest, stats) ==
    IF Len(parts) = 2 THEN StatStore(parts[1], PyInt(parts[2]), rest, stats)
    ELSE StatLoop(rest, stats)

StatLoop(lines, stats) ==
    IF lines = <<>> THEN [exc |-> "", stats |-> stats]
    ELSE StatLine(Split(Strip(Head(lines))), Tail(lines), stats)

(* except Exception: pass; return stats *)
ExceptReturnStats(r, opens) ==
    IF r.exc = "" \/ r.exc \in ExceptionClasses THEN Return(r.stats, opens)
    ELSE Raise(r.exc, opens)

(* the try block, given what open() did *)
StatOpened(f) ==
    IF f.exc # "" THEN ExceptReturnStats([exc |-> f.exc, stats |-> {}], f.opens)
    ELSE ExceptReturnStats(StatLoop(FileLines(f.val), {}), f.opens)

ReadCgroupStatFile(path) == StatOpened(OpenRead(path))

-----------------------------------------------------------------------------
(* the cgroup directories *)

CgroupRoot == [parent |-> "/sys/fs", leaf |-> <<"cgroup">>]

(* f"/sys/fs/cgroup/memory/docker/{container_id}" *)
V1BasePath(container_id) == [parent |-> "/sys/fs/cgroup/memory/docker", leaf |-> container_id]

(* the last component of f"/sys/fs/cgroup/**/docker-{container_id}.scope" *)
ScopeName(container_id) == <<"docker-">> \o container_id \o <<".scope">>

(* glob.glob(pattern, recursive=True): the directories under the cgroup    *)
(* root, at any depth, whose name is the pattern's last component          *)
GlobMatches(container_id) == {d \in fs.dirs : d.leaf = ScopeName(container_id)}

(* the keys looked up in memory.stat *)
KeyAnon == <<"a", "n", "o", "n">>

KeyFile == <<"f", "i", "l", "e">>

KeyShmem == <<"s", "h", "m", "e", "m">>

KeyRss == <<"r", "s", "s">>

StatFields == {"ram", "swap", "limit", "swaplimit", "anon", "file", "shmem", "rss"}

(* two calls in program order: the second is not made when the first       *)
(* raised; the paths opened are those of both                              *)
Then(a, b) ==
    IF a.exc # "" THEN a ELSE [exc |-> b.exc, val |-> b.val, opens |-> a.opens \o b.opens]

(* a missing operand counted as 0 *)
SubtractDefaultZero(total, part) ==
    Some((IF total # None THEN total[1] ELSE 0) - (IF part # None THEN part[1] ELSE 0))

(* `total - part if part is not None and total is not None else None` *)
Subtract(total, part) ==
    IF part # None /\ total # None THEN Some(total[1] - part[1]) ELSE None

(* stat.get(key, 0) *)
StatGetDefaultZero(stat, key) ==
    IF \E e \in stat : e[1] = key THEN DictGet(stat, key) ELSE Some(0)

(* stat.get(key) *)
StatGet(stat, key) == DictGet(stat, key)

(* get_memory_stats_v1 *)
GetMemoryStatsV1(container_id) ==
    LET base_path   == V1BasePath(container_id)
        mem         == ReadCgroupFile(Join(base_path, "memory.usage_in_bytes"))
        memsw       == ReadCgroupFile(Join(base_path, "memory.memsw.usage_in_bytes"))
        mem_limit   == ReadCgroupFile(Join(base_path, "memory.limit_in_bytes"))
        memsw_limit == ReadCgroupFile(Join(base_path, "memory.memsw.limit_in_bytes"))
        swap        == Subtract(memsw.val, mem.val)
        swap_limit  == Subtract(memsw_limit.val, mem_limit.val)
        stat        == ReadCgroupStatFile(Join(base_path, "memory.stat"))
        done        == Then(Then(Then(Then(mem, memsw), mem_limit), memsw_limit), stat)
    IN  IF done.exc # "" THEN Raise(done.exc, done.opens)
        ELSE Return([ram       |-> mem.val,
                     swap      |-> swap,
                     limit     |-> mem_limit.val,
                     swaplimit |-> swap_limit,
                     anon      |-> StatGet(stat.val, KeyAnon),
                     file      |-> StatGet(stat.val, KeyFile),
                     shmem     |-> StatGet(stat.val, KeyShmem),
                     rss       |-> StatGet(stat.val, KeyRss)],
                    done.opens)

(* find_cgroup_path_v2: glob returns the matches in an order the filesystem *)
(* decides, so matches[0] is any of them; the set of possible returns       *)
FindCgroupPathV2(container_id) ==
    LET matches == GlobMatches(container_id)
    IN  IF matches # {} THEN {Some(m) : m \in matches} ELSE {None}

(* the file read whether it exists or not *)
ReadUnchecked(path) == ReadCgroupFile(path)

(* `x = None; if os.path.exists(path): x = read_cgroup_file(path)` *)
ReadIfExists(path) == IF Exists(path) THEN ReadCgroupFile(path) ELSE Return(None, <<>>)

(* get_memory_stats_v2 below `if not base_path` *)
StatsV2At(base_path) ==
    LET mem        == ReadCgroupFile(Join(base_path, "memory.current"))
        swap       == ReadIfExists(Join(base_path, "memory.swap.current"))
        mem_limit  == ReadCgroupFile(Join(base_path, "memory.max"))
        swap_limit == ReadIfExists(Join(base_path, "memory.swap.max"))
        stat       == ReadCgroupStatFile(Join(base_path, "memory.stat"))
        done       == Then(Then(Then(Then(mem, swap), mem_limit), swap_limit), stat)
    IN  IF done.exc # "" THEN Raise(done.exc, done.opens)
        ELSE Return([ram       |-> mem.val,
                     swap      |-> swap.val,
                     limit     |-> mem_limit.val,
                     swaplimit |-> swap_limit.val,
                     anon      |-> StatGet(stat.val, KeyAnon),
                     file      |-> StatGet(stat.val, KeyFile),
                     shmem     |-> StatGet(stat.val, KeyShmem),
                     rss       |-> StatGet(stat.val, KeyRss)],
                    done.opens)

(* no test of base_path: os.path.join(None, ...) raises TypeError *)
GetMemoryStatsV2FromUnchecked(found) ==
    IF found = None THEN Raise("TypeError", <<>>) ELSE StatsV2At(found[1])

(* get_memory_stats_v2 from the point where find_cgroup_path_v2 returned    *)
GetMemoryStatsV2From(found) ==
    IF found = None THEN Return([k \in StatFields |-> None], <<>>)
    ELSE StatsV2At(found[1])

(* get_memory_stats_v2: every record the call can return *)
GetMemoryStatsV2(container_id) ==
    {GetMemoryStatsV2From(found) : found \in FindCgroupPathV2(container_id)}

(* get_cgroup_version *)
GetCgroupVersion ==
    IF Exists(Join(CgroupRoot, "cgroup.controllers")) THEN 2 ELSE 1

-----------------------------------------------------------------------------
(* bounds and input sets *)

MaxLen == 3

MaxLines == 3

MaxCalls == 2

MaxContainers == 2

(* all texts of at most n characters over an alphabet *)
Texts(alphabet, n) == UNION {[1..k -> alphabet] : k \in 0..n}

ScalarAlphabet == {"0", "7", "-", "m", "a", "x", "\n"}

(* 100 MB, 150 MB, and the kernel's "no limit" value of memory.limit_in_bytes *)
(* (PAGE_COUNTER_MAX pages in bytes; LONG_MAX rounded down to a page, here    *)
(* for a 32-bit long)                                                         *)
Text100MB == <<"1", "0", "4", "8", "5", "7", "6", "0", "0", "\n">>

Text150MB == <<"1", "5", "7", "2", "8", "6", "4", "0", "0", "\n">>

TextUnlimitedV1 == <<"2", "1", "4", "7", "4", "7", "9", "5", "5", "2", "\n">>

TextMax == <<"m", "a", "x", "\n">>

ScalarTexts ==
    Texts(ScalarAlphabet, MaxLen)
        \cup {Text100MB, Text150MB, TextUnlimitedV1, TextMax, <<" ", "+", "7", "\n">>,
              <<"1", "_", "0">>, <<"7", " ", "7">>}

Prefix12 == <<"0", "1", "2", "3", "4", "5", "6", "7", "8", "9", "a", "b">>

IdA == Prefix12 \o <<"c">>

IdB == Prefix12 \o <<"d">>

IdC == <<"f", "f">>

NoFiles == [p \in {} |-> File(<<>>)]

NoDocker == [installed |-> FALSE, rc |-> 0, out |-> <<>>]

(* the variables main() owns, before main() runs *)
Idle ==
    /\ docker = NoDocker
    /\ filter_str = None
    /\ cgroup_version = 0
    /\ containers = <<>>
    /\ rows = <<>>

-----------------------------------------------------------------------------
(* read_cgroup_file applied to one path over every file of ScalarTexts,     *)
(* readable or not, and to a missing file                                   *)

ScalarPath == Join(V1BasePath(IdA), "memory.usage_in_bytes")

InitScalar ==
    /\ Idle
    /\ arg = ScalarPath
    /\ calls = <<>>
    /\ pc = "call"
    /\ \E files \in {NoFiles} \cup {ScalarPath :> File(t) : t \in ScalarTexts}
                              \cup {ScalarPath :> Unreadable(t) : t \in {Text100MB}} :
          fs = [files |-> files, dirs |-> {}]

CallReadCgroupFile ==
    /\ pc = "call"
    /\ Len(calls) < MaxCalls
    /\ calls' = Append(calls, [fn |-> "read_cgroup_file", arg |-> arg,
                               ret |-> ReadCgroupFile(arg)])
    /\ UNCHANGED <<fs, docker, filter_str, pc, cgroup_version, containers, rows, arg>>

NextScalar == CallReadCgroupFile

SpecScalar == InitScalar /\ [][NextScalar]_vars

-----------------------------------------------------------------------------
(* read_cgroup_stat_file applied to memory.stat files of at most MaxLines   *)
(* lines drawn from StatLines                                               *)

LineAnon5 == KeyAnon \o <<" ", "5", "\n">>

LineAnon0 == KeyAnon \o <<" ", "0", "\n">>

LineRss7 == KeyRss \o <<" ", "7", "\n">>

LineFileTabbed == <<"\t">> \o KeyFile \o <<" ", " ", "1", "2", " ", "\n">>

LineFileNotInt == KeyFile \o <<" ", "x", "\n">>

LineOneToken == KeyShmem \o <<"\n">>

LineThreeTokens == KeyShmem \o <<" ", "7", " ", "7", "\n">>

LineBlank == <<"\n">>

StatLines == {LineAnon5, LineAnon0, LineRss7, LineFileTabbed, LineFileNotInt,
              LineOneToken, LineThreeTokens, LineBlank}

RECURSIVE Concat(_)
Concat(ss) == IF ss = <<>> THEN <<>> ELSE Head(ss) \o Concat(Tail(ss))

StatTexts == {Concat(ls) : ls \in UNION {[1..k -> StatLines] : k \in 0..MaxLines}}

StatPath == Join(V1BasePath(IdA), "memory.stat")

InitKeyed ==
    /\ Idle
    /\ arg = StatPath
    /\ calls = <<>>
    /\ pc = "call"
    /\ \E files \in {NoFiles} \cup {StatPath :> File(t) : t \in StatTexts}
                              \cup {StatPath :> Unreadable(t) : t \in {LineAnon5}} :
          fs = [files |-> files, dirs |-> {}]

CallReadCgroupStatFile ==
    /\ pc = "call"
    /\ Len(calls) < MaxCalls
    /\ calls' = Append(calls, [fn |-> "read_cgroup_stat_file", arg |-> arg,
                               ret |-> ReadCgroupStatFile(arg)])
    /\ UNCHANGED <<fs, docker, filter_str, pc, cgroup_version, containers, rows, arg>>

NextKeyed == CallReadCgroupStatFile

SpecKeyed == InitKeyed /\ [][NextKeyed]_vars

-----------------------------------------------------------------------------
(* get_memory_stats_v1 / get_memory_stats_v2 called MaxCalls times for one  *)
(* container on a filesystem that does not change.  Each file of the        *)
(* container's cgroup directory is missing or holds one of a few texts; a   *)
(* v2 host may hold a second directory matching docker-<id>.scope.          *)

V1ScalarNames == {"memory.usage_in_bytes", "memory.memsw.usage_in_bytes",
                  "memory.limit_in_bytes", "memory.memsw.limit_in_bytes"}

V2ScalarNames == {"memory.current", "memory.swap.current", "memory.max", "memory.swap.max"}

Text0 == <<"0", "\n">>

CollectScalarTexts == {Text0, TextMax, Text100MB, Text150MB, TextUnlimitedV1}

StatAllKeys == LineAnon5 \o LineRss7 \o LineFileTabbed \o KeyShmem \o <<" ", "0", "\n">>

CollectStatTexts == {StatAllKeys, LineAnon0, LineAnon5 \o LineFileNotInt \o LineRss7}

(* a file that may be missing: <<>> or <<text>> *)
Maybe(texts) == {<<>>} \cup {<<t>> : t \in texts}

(* the directory images: file name -> <<>> (missing) or <<text>> *)
Images(scalarNames) ==
    {sc @@ ("memory.stat" :> st) :
        sc \in [scalarNames -> Maybe(CollectScalarTexts)], st \in Maybe(CollectStatTexts)}

(* the files of directory dir holding image img *)
DirFiles(dir, img) ==
    [p \in {Join(dir, n) : n \in {m \in DOMAIN img : img[m] # <<>>}} |-> File(img[p.name][1])]

ControllersFile == Join(CgroupRoot, "cgroup.controllers") :> File(<<>>)

ScopeDir1 == [parent |-> "/sys/fs/cgroup/system.slice", leaf |-> ScopeName(IdA)]

ScopeDir2 == [parent |-> "/sys/fs/cgroup/docker.slice", leaf |-> ScopeName(IdA)]

(* the second matching directory holds one of two images *)
SecondImages ==
    {[n \in V2ScalarNames |-> <<Text0>>] @@ ("memory.stat" :> <<LineAnon0>>),
     [n \in V2ScalarNames |-> <<>>] @@ ("memory.stat" :> <<>>)}

(* a cgroup v1 host: /sys/fs/cgroup/memory/docker/<id> *)
V1Filesystems ==
    {[files |-> DirFiles(V1BasePath(IdA), img), dirs |-> {V1BasePath(IdA)}] :
        img \in Images(V1ScalarNames)}

(* a cgroup v2 host with no, one or two directories named docker-<id>.scope *)
V2NoScope == {[files |-> ControllersFile, dirs |-> {}]}

V2OneScope ==
    {[files |-> ControllersFile @@ DirFiles(ScopeDir1, img), dirs |-> {ScopeDir1}] :
        img \in Images(V2ScalarNames)}

V2TwoScopes ==
    {[files |-> ControllersFile @@ DirFiles(ScopeDir1, i1) @@ DirFiles(ScopeDir2, i2),
      dirs  |-> {ScopeDir1, ScopeDir2}] :
        i1 \in {i \in Images(V2ScalarNames) : i["memory.max"] = <<TextMax>>
                                                /\ i["memory.swap.max"] = <<TextMax>>},
        i2 \in SecondImages}

InitCollect ==
    /\ Idle
    /\ arg = IdA
    /\ calls = <<>>
    /\ pc = "call"
    /\ \/ fs \in V1Filesystems
       \/ fs \in V2NoScope
       \/ fs \in V2OneScope
       \/ fs \in V2TwoScopes

CallGetMemoryStatsV1 ==
    /\ pc = "call"
    /\ Len(calls) < MaxCalls
    /\ GetCgroupVersion = 1
    /\ calls' = Append(calls, [fn |-> "get_memory_stats_v1", arg |-> arg,
                               ret |-> GetMemoryStatsV1(arg)])
    /\ UNCHANGED <<fs, docker, filter_str, pc, cgroup_version, containers, rows, arg>>

CallGetMemoryStatsV2 ==
    /\ pc = "call"
    /\ Len(calls) < MaxCalls
    /\ GetCgroupVersion = 2
    /\ \E ret \in GetMemoryStatsV2(arg) :
          calls' = Append(calls, [fn |-> "get_memory_stats_v2", arg |-> arg, ret |-> ret])
    /\ UNCHANGED <<fs, docker, filter_str, pc, cgroup_version, containers, rows, arg>>

NextCollect == CallGetMemoryStatsV1 \/ CallGetMemoryStatsV2

SpecCollect == InitCollect /\ [][NextCollect]_vars

-----------------------------------------------------------------------------
(* get_all_containers: docker.out is the stdout of `docker ps --no-trunc    *)
(* --format "{{.ID}} {{.Names}}"`, stripped and split into lines            *)

FirstSpace(t) == SetMin({i \in 1..Len(t) : t[i] \in Whitespace} \cup {Len(t) + 1})

(* str.split(maxsplit=1) of a stripped line *)
SplitMax1(t) ==
    IF t = <<>> THEN <<>>
    ELSE IF FirstSpace(t) > Len(t) THEN <<t>>
    ELSE <<SubSeq(t, 1, FirstSpace(t) - 1), Strip(SubSeq(t, FirstSpace(t), Len(t)))>>

RECURSIVE ParseLines(_, _)
(* cid, name = ...: unpacking anything but two values raises ValueError *)
ParseLine(parts, rest, acc) ==
    IF Len(parts) # 2 THEN Raise("ValueError", <<>>)
    ELSE ParseLines(rest, Append(acc, [id |-> parts[1], name |-> parts[2]]))

ParseLines(lines, acc) ==
    IF lines = <<>> THEN Return(acc, <<>>)
    ELSE IF Head(lines) = <<>> THEN ParseLines(Tail(lines), acc)
    ELSE ParseLine(SplitMax1(Strip(Head(lines))), Tail(lines), acc)

(* check=True raises CalledProcessError on a non-zero status: exit(1) *)
GetAllContainers ==
    IF docker.rc # 0 THEN Raise("SystemExit", <<>>) ELSE ParseLines(docker.out, <<>>)

-----------------------------------------------------------------------------
(* main *)

IdWidth == 12

LowerCase == ("A" :> "a") @@ ("B" :> "b") @@ ("C" :> "c") @@ ("D" :> "d") @@ ("E" :> "e")
             @@ ("F" :> "f") @@ ("W" :> "w")

(* str.lower() *)
Lower(t) == [i \in 1..Len(t) |-> IF t[i] \in DOMAIN LowerCase THEN LowerCase[t[i]] ELSE t[i]]

(* `sub in text` *)
Contains(text, sub) ==
    \E i \in 0..(Len(text) - Len(sub)) : SubSeq(text, i + 1, i + Len(sub)) = sub

(* the condition of the list comprehension that applies --filter *)
MatchesFilter(c, f) == Contains(Lower(c.name), Lower(f)) \/ Contains(Lower(c.id), Lower(f))

(* if filter_str: containers = [c for c in containers if ...] *)
ApplyFilter(cs) ==
    IF filter_str # None /\ filter_str[1] # <<>>
    THEN SelectSeq(cs, LAMBDA c : MatchesFilter(c, filter_str[1]))
    ELSE cs

(* container["id"][:12] *)
Truncate(id) == SubSeq(id, 1, IF Len(id) < IdWidth THEN Len(id) ELSE IdWidth)

(* the row of one container; the columns formatted by format_bytes are left *)
(* out, ram_raw and swap_raw carry the collected values                    *)
Row(container, stats) ==
    [container |-> container.name,
     id        |-> Truncate(container.id),
     ram_raw   |-> stats.ram,
     swap_raw  |-> stats.swap]

(* setup_logger, check_dependencies, get_cgroup_version, get_all_containers, *)
(* the filter                                                               *)
MainListed(listed) ==
    /\ cgroup_version' = GetCgroupVersion
    /\ calls' = Append(calls, [fn |-> "get_all_containers", arg |-> <<>>, ret |-> listed])
    /\ containers' = IF listed.exc = "" THEN ApplyFilter(listed.val) ELSE containers
    /\ pc' = IF listed.exc = "" THEN "loop"
             ELSE IF listed.exc = "SystemExit" THEN "exit1" ELSE "traceback"

MainStart ==
    /\ pc = "start"
    /\ IF ~docker.installed
       THEN pc' = "exit1" /\ UNCHANGED <<cgroup_version, calls, containers>>
       ELSE MainListed(GetAllContainers)
    /\ UNCHANGED <<fs, docker, filter_str, rows, arg>>

(* the collector called with the id as displayed *)
LookupIdTruncated(container) == Truncate(container.id)

(* the argument of the collector: container["id"] *)
LookupId(container) == container.id

(* what the loop body does with the collector's result *)
MainCollected(container, fn, ret) ==
    /\ calls' = Append(calls, [fn |-> fn, arg |-> LookupId(container), ret |-> ret])
    /\ IF ret.exc # ""
       THEN pc' = "traceback" /\ UNCHANGED rows
       ELSE pc' = pc /\ rows' = Append(rows, Row(container, ret.val))

(* one pass of `for container in containers` *)
MainIterate ==
    /\ pc = "loop"
    /\ Len(rows) < Len(containers)
    /\ IF cgroup_version = 1
       THEN MainCollected(containers[Len(rows) + 1], "get_memory_stats_v1",
                          GetMemoryStatsV1(LookupId(containers[Len(rows) + 1])))
       ELSE \E ret \in GetMemoryStatsV2(LookupId(containers[Len(rows) + 1])) :
               MainCollected(containers[Len(rows) + 1], "get_memory_stats_v2", ret)
    /\ UNCHANGED <<fs, docker, filter_str, cgroup_version, containers, arg>>

(* the loop is over: the rows are printed *)
MainOutput ==
    /\ pc = "loop"
    /\ Len(rows) = Len(containers)
    /\ pc' = "done"
    /\ UNCHANGED <<fs, docker, filter_str, cgroup_version, containers, rows, calls, arg>>

-----------------------------------------------------------------------------
(* the hosts and the docker output main() is run on *)

NameWeb == <<"w", "e", "b">>

NameDB == <<"D", "B">>

ContainerIds == {IdA, IdB, IdC}

ContainerNames == {NameWeb, NameDB}

PsLines == {id \o <<" ">> \o name : id \in ContainerIds, name \in ContainerNames}

PsOutputs == UNION {[1..k -> PsLines] : k \in 0..MaxContainers}

DockerStates ==
    {NoDocker, [installed |-> TRUE, rc |-> 1, out |-> <<>>]}
        \cup {[installed |-> TRUE, rc |-> 0, out |-> out] : out \in PsOutputs}

Filters == {None, Some(<<>>), Some(NameWeb), Some(<<"d">>)}

ImageA1 == ("memory.usage_in_bytes" :> <<Text100MB>>)
           @@ ("memory.memsw.usage_in_bytes" :> <<Text150MB>>)
           @@ ("memory.limit_in_bytes" :> <<TextUnlimitedV1>>)
           @@ ("memory.memsw.limit_in_bytes" :> <<TextUnlimitedV1>>)
           @@ ("memory.stat" :> <<StatAllKeys>>)

ImageB1 == ("memory.usage_in_bytes" :> <<Text0>>)
           @@ ("memory.memsw.usage_in_bytes" :> <<>>)
           @@ ("memory.limit_in_bytes" :> <<Text150MB>>)
           @@ ("memory.memsw.limit_in_bytes" :> <<Text150MB>>)
           @@ ("memory.stat" :> <<LineAnon0>>)

ImageA2 == ("memory.current" :> <<Text100MB>>)
           @@ ("memory.swap.current" :> <<Text0>>)
           @@ ("memory.max" :> <<TextMax>>)
           @@ ("memory.swap.max" :> <<TextMax>>)
           @@ ("memory.stat" :> <<StatAllKeys>>)

ImageB2 == ("memory.current" :> <<Text150MB>>)
           @@ ("memory.swap.current" :> <<>>)
           @@ ("memory.max" :> <<Text150MB>>)
           @@ ("memory.swap.max" :> <<>>)
           @@ ("memory.stat" :> <<LineAnon0>>)

ScopeDir(id) == [parent |-> "/sys/fs/cgroup/system.slice", leaf |-> ScopeName(id)]

(* a v1 host and a v2 host with the cgroups of IdA and IdB (none for IdC), *)
(* and a v2 host with no docker scope at all                              *)
RunFilesystems ==
    {[files |-> DirFiles(V1BasePath(IdA), ImageA1) @@ DirFiles(V1BasePath(IdB), ImageB1),
      dirs  |-> {V1BasePath(IdA), V1BasePath(IdB)}],
     [files |-> ControllersFile @@ DirFiles(ScopeDir(IdA), ImageA2)
                    @@ DirFiles(ScopeDir(IdB), ImageB2),
      dirs  |-> {ScopeDir(IdA), ScopeDir(IdB)}],
     [files |-> ControllersFile, dirs |-> {}]}

Init ==
    /\ fs \in RunFilesystems
    /\ docker \in DockerStates
    /\ filter_str \in Filters
    /\ pc = "start"
    /\ cgroup_version = 0
    /\ containers = <<>>
    /\ rows = <<>>
    /\ calls = <<>>
    /\ arg = <<>>

Next == MainStart \/ MainIterate \/ MainOutput

Spec == Init /\ [][Next]_vars

-----------------------------------------------------------------------------
(* what the properties are stated with *)

RECURSIVE DropLeft(_)
DropLeft(s) == IF s # <<>> /\ Head(s) \in Whitespace THEN DropLeft(Tail(s)) ELSE s

RECURSIVE DropRight(_)
DropRight(s) ==
    IF s # <<>> /\ s[Len(s)] \in Whitespace THEN DropRight(SubSeq(s, 1, Len(s) - 1)) ELSE s

(* the content with the whitespace at both ends removed *)
Trimmed(s) == DropRight(DropLeft(s))

(* a base-10 unsigned integer: one or more digits and nothing else *)
IsUnsignedDecimal(t) == t # <<>> /\ \A i \in 1..Len(t) : t[i] \in Digits

RECURSIVE Pow10(_)
Pow10(n) == IF n = 0 THEN 1 ELSE 10 * Pow10(n - 1)

RECURSIVE PlaceSum(_, _)
PlaceSum(t, i) ==
    IF i > Len(t) THEN 0 ELSE DigitVal[t[i]] * Pow10(Len(t) - i) + PlaceSum(t, i + 1)

(* the number a digit string denotes *)
PlaceValue(t) == PlaceSum(t, 1)

(* not a number: not an optional sign followed by digits (and underscores) *)
NotANumber(t) ==
    LET body == IF t # <<>> /\ t[1] \in {"+", "-"} THEN Tail(t) ELSE t
    IN  body = <<>> \/ \E i \in 1..Len(body) : body[i] \notin Digits \cup {"_"}

IsReadable(path) == path \in DOMAIN fs.files /\ fs.files[path].readable

CallsOf(fn) == {k \in 1..Len(calls) : calls[k].fn = fn}

-----------------------------------------------------------------------------
(* C1: read_cgroup_stat_file returns exactly the keys of the lines with two *)
(* whitespace-separated tokens and an integer second token, each mapped to  *)
(* an integer of such a line; a malformed line keeps no well-formed line,   *)
(* before or after it, out of the result.                                   *)

WellFormedLine(l) == Len(Split(l)) = 2 /\ PyInt(Split(l)[2]).exc = ""

KeptLines(path) ==
    {i \in 1..Len(FileLines(fs.files[path].data)) :
        WellFormedLine(FileLines(fs.files[path].data)[i])}

C1_AllWellFormedLinesKept ==
    \A k \in CallsOf("read_cgroup_stat_file") :
        IsReadable(calls[k].arg) =>
            LET lines == FileLines(fs.files[calls[k].arg].data)
                kept  == KeptLines(calls[k].arg)
                stats == calls[k].ret.val
            IN  /\ calls[k].ret.exc = ""
                /\ {e[1] : e \in stats} = {Split(lines[i])[1] : i \in kept}
                /\ \A e \in stats : \E i \in kept :
                      Split(lines[i])[1] = e[1] /\ PyInt(Split(lines[i])[2]).val = e[2]

-----------------------------------------------------------------------------
(* C2: read_cgroup_file never raises; it returns the integer when the       *)
(* trimmed content is a base-10 unsigned integer, and None when the trimmed *)
(* content is `max`, empty or not a number, or the file is missing or       *)
(* unreadable.                                                              *)

C2_ReadScalar ==
    \A k \in CallsOf("read_cgroup_file") :
        /\ calls[k].ret.exc = ""
        /\ IF ~IsReadable(calls[k].arg) THEN calls[k].ret.val = None
           ELSE LET t == Trimmed(fs.files[calls[k].arg].data)
                IN  /\ IsUnsignedDecimal(t) => calls[k].ret.val = Some(PlaceValue(t))
                    /\ (t = <<"m", "a", "x">> \/ t = <<>> \/ NotANumber(t))
                          => calls[k].ret.val = None

(* a file holding 104857600 was read as that integer, a file holding `max`  *)
(* or garbage, or a missing file, as None                                  *)
C2_Witness ==
    /\ CallsOf("read_cgroup_file") # {}
    /\ IsReadable(arg)
    /\ fs.files[arg].data = Text100MB
    /\ calls[1].ret = Return(Some(104857600), <<arg>>)

-----------------------------------------------------------------------------
(* the value a scalar file holds: its number when it is readable and its   *)
(* trimmed content is an unsigned decimal, absent otherwise                *)
FileValue(path) ==
    IF IsReadable(path) /\ IsUnsignedDecimal(Trimmed(fs.files[path].data))
    THEN Some(PlaceValue(Trimmed(fs.files[path].data)))
    ELSE None

(* the directory a collector call read: that of the first file it opened *)
BaseOf(k) == calls[k].ret.opens[1].dir

HoldsText(path, texts) == IsReadable(path) /\ fs.files[path].data \in texts

-----------------------------------------------------------------------------
(* C3: in get_memory_stats_v1, swap is present iff memsw and ram both are,  *)
(* and then is memsw - ram; swaplimit is present iff memswLimit and         *)
(* ramLimit both are, and then is their difference; with an operand absent  *)
(* the field is absent.  ram=104857600, memsw=157286400 give swap=52428800. *)

C3_SwapV1 ==
    \A k \in CallsOf("get_memory_stats_v1") :
        LET base       == V1BasePath(calls[k].arg)
            ram        == FileValue(Join(base, "memory.usage_in_bytes"))
            memsw      == FileValue(Join(base, "memory.memsw.usage_in_bytes"))
            ramLimit   == FileValue(Join(base, "memory.limit_in_bytes"))
            memswLimit == FileValue(Join(base, "memory.memsw.limit_in_bytes"))
            stats      == calls[k].ret.val
        IN  /\ calls[k].ret.exc = ""
            /\ (stats.swap # None) <=> (memsw # None /\ ram # None)
            /\ stats.swap # None => stats.swap[1] = memsw[1] - ram[1]
            /\ (stats.swaplimit # None) <=> (memswLimit # None /\ ramLimit # None)
            /\ stats.swaplimit # None => stats.swaplimit[1] = memswLimit[1] - ramLimit[1]
            /\ (ram = Some(104857600) /\ memsw = Some(157286400))
                  => stats.swap = Some(52428800)

(* ram = 100 MB and memsw = 150 MB gave swap = 50 MB, while the limit file  *)
(* is missing and swaplimit is absent although memsw.limit holds a number   *)
C3_Witness ==
    /\ CallsOf("get_memory_stats_v1") # {}
    /\ HoldsText(Join(V1BasePath(arg), "memory.usage_in_bytes"), {Text100MB})
    /\ HoldsText(Join(V1BasePath(arg), "memory.memsw.usage_in_bytes"), {Text150MB})
    /\ ~Exists(Join(V1BasePath(arg), "memory.limit_in_bytes"))
    /\ HoldsText(Join(V1BasePath(arg), "memory.memsw.limit_in_bytes"), {Text150MB})
    /\ calls[1].ret.val.swap = Some(52428800)
    /\ calls[1].ret.val.swaplimit = None

-----------------------------------------------------------------------------
(* C4: every field of every record of either collector is a non-negative    *)
(* integer or absent; ram, limit and anon are absent when their source is   *)
(* missing and 0 when their source holds 0.                                 *)

C4_NonNegativeOrAbsent ==
    \A k \in CallsOf("get_memory_stats_v1") \cup CallsOf("get_memory_stats_v2") :
        LET stats == calls[k].ret.val
            v1    == calls[k].fn = "get_memory_stats_v1"
            base  == IF v1 THEN V1BasePath(calls[k].arg) ELSE BaseOf(k)
            ramF  == Join(base, IF v1 THEN "memory.usage_in_bytes" ELSE "memory.current")
            limF  == Join(base, IF v1 THEN "memory.limit_in_bytes" ELSE "memory.max")
        IN  /\ calls[k].ret.exc = ""
            /\ \A f \in StatFields : stats[f] = None \/ stats[f][1] >= 0
            /\ (v1 \/ calls[k].ret.opens # <<>>) =>
                  /\ ~Exists(ramF) => stats.ram = None
                  /\ ~Exists(limF) => stats.limit = None
                  /\ ~Exists(Join(base, "memory.stat")) => stats.anon = None
                  /\ HoldsText(ramF, {Text0}) => stats.ram = Some(0)
                  /\ HoldsText(limF, {Text0}) => stats.limit = Some(0)
                  /\ HoldsText(Join(base, "memory.stat"), {LineAnon0}) => stats.anon = Some(0)

-----------------------------------------------------------------------------
(* C7: limit and swaplimit are absent whenever the ceiling is unlimited, in *)
(* both versions: a limit file holding `max` or the kernel's huge "no       *)
(* limit" value gives an absent field.                                      *)

UnlimitedTexts == {TextMax, TextUnlimitedV1}

C7_UnlimitedIsAbsent ==
    /\ \A k \in CallsOf("get_memory_stats_v1") :
          LET base == V1BasePath(calls[k].arg)
          IN  /\ HoldsText(Join(base, "memory.limit_in_bytes"), UnlimitedTexts)
                    => calls[k].ret.val.limit = None
              /\ HoldsText(Join(base, "memory.memsw.limit_in_bytes"), UnlimitedTexts)
                    => calls[k].ret.val.swaplimit = None
    /\ \A k \in CallsOf("get_memory_stats_v2") :
          calls[k].ret.opens # <<>> =>
              /\ HoldsText(Join(BaseOf(k), "memory.max"), UnlimitedTexts)
                    => calls[k].ret.val.limit = None
              /\ HoldsText(Join(BaseOf(k), "memory.swap.max"), UnlimitedTexts)
                    => calls[k].ret.val.swaplimit = None

-----------------------------------------------------------------------------
(* C8: two calls of a collector for the same container id on an unchanged   *)
(* filesystem return the same record, also when more than one directory     *)
(* matches docker-<id>.scope.                                               *)

-----------------------------------------------------------------------------
(* C9: in both collectors each of anon, file, shmem, rss is present iff its *)
(* key is in the mapping read_cgroup_stat_file returns for memory.stat, and *)
(* then is the mapped value; a missing key or file gives absent, never 0.   *)

KeyOfField == [anon |-> KeyAnon, file |-> KeyFile, shmem |-> KeyShmem, rss |-> KeyRss]

KeyedFieldsFrom(stats, base) ==
    LET mapping == ReadCgroupStatFile(Join(base, "memory.stat")).val
    IN  /\ \A f \in DOMAIN KeyOfField :
              /\ (stats[f] # None) <=> (\E e \in mapping : e[1] = KeyOfField[f])
              /\ stats[f] # None => <<KeyOfField[f], stats[f][1]>> \in mapping
        /\ ~Exists(Join(base, "memory.stat")) =>
              \A f \in DOMAIN KeyOfField : stats[f] = None

C9_KeyedFields ==
    /\ \A k \in CallsOf("get_memory_stats_v1") :
          calls[k].ret.exc = ""
              /\ KeyedFieldsFrom(calls[k].ret.val, V1BasePath(calls[k].arg))
    /\ \A k \in CallsOf("get_memory_stats_v2") :
          calls[k].ret.exc = ""
              /\ (calls[k].ret.opens # <<>> => KeyedFieldsFrom(calls[k].ret.val, BaseOf(k)))

(* a v2 record with anon = 0 from the line `anon 0`, no rss key and so no   *)
(* rss, while ram is absent and limit is present                           *)
C9_Witness ==
    /\ CallsOf("get_memory_stats_v2") # {}
    /\ fs.dirs = {ScopeDir1}
    /\ HoldsText(Join(ScopeDir1, "memory.stat"), {LineAnon0})
    /\ calls[1].ret.val.anon = Some(0)
    /\ calls[1].ret.val.rss = None
    /\ calls[1].ret.val.ram = None
    /\ calls[1].ret.val.limit # None

-----------------------------------------------------------------------------
(* C10: in get_memory_stats_v2 with a resolved scope directory, swap is the *)
(* value of memory.swap.current and swaplimit that of memory.swap.max, read *)
(* directly; a file of the two that does not exist is not opened and its    *)
(* field is absent, while memory.current, memory.max and memory.stat are    *)
(* opened and ram and limit reported.                                       *)

Opened(k) == {calls[k].ret.opens[i] : i \in 1..Len(calls[k].ret.opens)}

C10_V2Direct ==
    \A k \in CallsOf("get_memory_stats_v2") :
        /\ calls[k].ret.exc = ""
        /\ (calls[k].ret.opens # <<>>) <=> (GlobMatches(calls[k].arg) # {})
        /\ calls[k].ret.opens # <<>> =>
              LET base  == BaseOf(k)
                  stats == calls[k].ret.val
              IN  /\ base \in GlobMatches(calls[k].arg)
                  /\ stats.swap = FileValue(Join(base, "memory.swap.current"))
                  /\ stats.swaplimit = FileValue(Join(base, "memory.swap.max"))
                  /\ stats.ram = FileValue(Join(base, "memory.current"))
                  /\ stats.limit = FileValue(Join(base, "memory.max"))
                  /\ \A n \in {"memory.swap.current", "memory.swap.max"} :
                        Join(base, n) \in Opened(k) <=> Exists(Join(base, n))
                  /\ \A n \in {"memory.current", "memory.max", "memory.stat"} :
                        Join(base, n) \in Opened(k)

(* memory.swap.current does not exist: swap is absent and the file was not  *)
(* opened, ram is 100 MB; memory.swap.max holds 150 MB while memory.max     *)
(* holds `max`: swaplimit is present, limit is absent                       *)
C10_Witness ==
    /\ CallsOf("get_memory_stats_v2") # {}
    /\ fs.dirs = {ScopeDir1}
    /\ ~Exists(Join(ScopeDir1, "memory.swap.current"))
    /\ HoldsText(Join(ScopeDir1, "memory.max"), {TextMax})
    /\ calls[1].ret.val.ram = Some(104857600)
    /\ calls[1].ret.val.swap = None
    /\ calls[1].ret.val.limit = None
    /\ calls[1].ret.val.swaplimit = Some(157286400)
    /\ Join(ScopeDir1, "memory.swap.current") \notin Opened(1)
    /\ Join(ScopeDir1, "memory.stat") \in Opened(1)

-----------------------------------------------------------------------------
(* the run of main(): the list get_all_containers returned is the first     *)
(* entry of calls, the collector call of the i-th row is entry i + 1        *)

Listed == calls[1].ret.val

CollectorCalls == CallsOf("get_memory_stats_v1") \cup CallsOf("get_memory_stats_v2")

(* the directory holding the cgroup files of a container on this host *)
HostDir(id) == IF Exists(Join(CgroupRoot, "cgroup.controllers")) THEN ScopeDir(id)
               ELSE V1BasePath(id)

RamFile(id) == Join(HostDir(id), IF Exists(Join(CgroupRoot, "cgroup.controllers"))
                                 THEN "memory.current" ELSE "memory.usage_in_bytes")

(* the id as displayed: the id itself, cut after IdWidth characters *)
IsDisplayedId(shown, id) ==
    /\ Len(shown) = (IF Len(id) > IdWidth THEN IdWidth ELSE Len(id))
    /\ \A j \in 1..Len(shown) : shown[j] = id[j]

(* row r and collector call c belong to container ref *)
RowIsOf(r, c, ref) ==
    /\ r.container = ref.name
    /\ IsDisplayedId(r.id, ref.id)
    /\ c.arg = ref.id
    /\ r.ram_raw = FileValue(RamFile(ref.id))

-----------------------------------------------------------------------------
(* C5: when no directory docker-<id>.scope exists, get_memory_stats_v2      *)
(* returns a record with all eight fields absent, without raising and       *)
(* without opening any file, and the run collects the remaining containers: *)
(* it ends with one row per container of the list.                          *)

C5_UnresolvedScope ==
    /\ \A k \in CallsOf("get_memory_stats_v2") :
          GlobMatches(calls[k].arg) = {} =>
              /\ calls[k].ret.exc = ""
              /\ \A f \in StatFields : calls[k].ret.val[f] = None
              /\ calls[k].ret.opens = <<>>
    /\ pc # "traceback"
    /\ (pc \in {"loop", "done"} /\ cgroup_version = 2) =>
          /\ Cardinality(CollectorCalls) = Len(rows)
          /\ Len(rows) <= Len(containers)
          /\ pc = "done" => Len(rows) = Len(containers)
          /\ \A i \in 1..Len(rows) : calls[i + 1].arg = containers[i].id

(* a finished run on the v2 host whose first container has no scope         *)
(* directory and whose second container was then collected with its ram     *)
C5_Witness ==
    /\ pc = "done"
    /\ cgroup_version = 2
    /\ Len(rows) = 2
    /\ GlobMatches(calls[2].arg) = {}
    /\ calls[2].ret = Return([k \in StatFields |-> None], <<>>)
    /\ GlobMatches(calls[3].arg) # {}
    /\ rows[2].ram_raw = Some(104857600)

-----------------------------------------------------------------------------
(* C6 as stated: the run produces exactly one row per container of the list *)
(* the lister supplied, in the same order, each carrying the name and the   *)
(* (displayed) id of its container, the stats looked up with the full id.   *)

C6_OneRowPerListed ==
    pc = "done" =>
        /\ Len(rows) = Len(Listed)
        /\ \A i \in 1..Len(rows) : RowIsOf(rows[i], calls[i + 1], Listed[i])

(* C6 as amended: one row per container of the list that passes --filter    *)
(* (every container when no filter or an empty filter is given), in the     *)
(* list's order, each carrying the name and the displayed id of its         *)
(* container, the stats looked up with the full id.                         *)

PassesFilter(ref) ==
    \/ filter_str = None
    \/ filter_str = Some(<<>>)
    \/ Contains(Lower(ref.name), Lower(filter_str[1]))
    \/ Contains(Lower(ref.id), Lower(filter_str[1]))

Passing == {i \in 1..Len(Listed) : PassesFilter(Listed[i])}

(* the place of list entry i among the entries that pass *)
Rank(i) == Cardinality({j \in Passing : j <= i})

C6_OneRowPerMatching ==
    pc = "done" =>
        /\ Len(rows) = Cardinality(Passing)
        /\ Cardinality(CollectorCalls) = Len(rows)
        /\ \A i \in Passing : RowIsOf(rows[Rank(i)], calls[Rank(i) + 1], Listed[i])

(* a finished run over [IdA web, IdB DB], two ids with the same first 12    *)
(* characters: two rows in that order showing the same id, with the ram of  *)
(* IdA (100 MB) and of IdB (0)                                              *)
C6_Witness ==
    /\ pc = "done"
    /\ filter_str = None
    /\ cgroup_version = 1
    /\ Listed = <<[id |-> IdA, name |-> NameWeb], [id |-> IdB, name |-> NameDB]>>
    /\ Len(rows) = 2
    /\ rows[1] = [container |-> NameWeb, id |-> Prefix12,
                  ram_raw |-> Some(104857600), swap_raw |-> Some(52428800)]
    /\ rows[2] = [container |-> NameDB, id |-> Prefix12,
                  ram_raw |-> Some(0), swap_raw |-> None]

=============================================================================
